---- MODULE Spec2Model ----
(***************************************************************************)
(* Gesture classification and text-assembly engine of the two-way sign     *)
(* language translator (src/two_way_translator.py, TwoWayTranslatorApp).   *)
(*                                                                         *)
(* Python strings are modelled as sequences of one-character strings, so   *)
(* self.str = " " is <<" ">>.  A landmark list is a sequence of <<x, y>>   *)
(* pairs; Python's pts[i] is p[i + 1] here.  Resolved symbols are the      *)
(* Python values of ch1: a letter, " ", "next" (and "Backspace", which     *)
(* the commit code compares against).                                      *)
(***************************************************************************)
EXTENDS Integers, Sequences, FiniteSets, TLC

(* ---------------------------------------------------------------------- *)
(* Program constants                                                       *)
(* ---------------------------------------------------------------------- *)
HistLen == 10
MinPts == 21
NumSlots == 4
ThreshCO == 42
ThreshGH == 72
ThreshYJ == 42
Lookback == 2

(* ---------------------------------------------------------------------- *)
(* Bounds of the model                                                     *)
(* ---------------------------------------------------------------------- *)
MaxFrames == 5
MaxLoops == 1
MaxRingFrames == 12
MaxStepFrames == 6
MaxTotalFrames == 4
MaxPlayFrames == 4
MaxTimers == 2
MaxChains == 2

(* ---------------------------------------------------------------------- *)
(* String helpers (Python str methods used by the code)                    *)
(* ---------------------------------------------------------------------- *)
SP == " "

\* ButLast that drops the first character instead of the last
ButLast_First(s) == IF Len(s) = 0 THEN s ELSE SubSeq(s, 2, Len(s))

\* s[:-1]
ButLast(s) == IF Len(s) = 0 THEN s ELSE SubSeq(s, 1, Len(s) - 1)

\* s.rfind(" "): the 0-based index of the last space, -1 if there is none
RFind(s) ==
    IF \E i \in 1..Len(s) : s[i] = SP
    THEN (CHOOSE i \in 1..Len(s) :
              s[i] = SP /\ \A j \in (i + 1)..Len(s) : s[j] # SP) - 1
    ELSE -1

\* s[k:] for a 0-based k >= 0
From(s, k) == SubSeq(s, k + 1, Len(s))

\* s[:k] for a 0-based k >= 0
UpTo(s, k) == SubSeq(s, 1, k)

\* s.strip(): leading and trailing spaces removed
Strip(s) ==
    IF \A i \in 1..Len(s) : s[i] = SP
    THEN << >>
    ELSE LET lo == CHOOSE i \in 1..Len(s) :
                       s[i] # SP /\ \A j \in 1..(i - 1) : s[j] = SP
             hi == CHOOSE i \in 1..Len(s) :
                       s[i] # SP /\ \A j \in (i + 1)..Len(s) : s[j] = SP
         IN  SubSeq(s, lo, hi)

Lower == <<"a", "b", "c", "d", "e", "f", "g", "h", "i", "j", "k", "l", "m",
           "n", "o", "p", "q", "r", "s", "t", "u", "v", "w", "x", "y", "z">>
Upper == <<"A", "B", "C", "D", "E", "F", "G", "H", "I", "J", "K", "L", "M",
           "N", "O", "P", "Q", "R", "S", "T", "U", "V", "W", "X", "Y", "Z">>

\* c.upper() for one character
UpperChar(c) ==
    IF \E i \in 1..Len(Lower) : Lower[i] = c
    THEN Upper[CHOOSE i \in 1..Len(Lower) : Lower[i] = c]
    ELSE c

\* s.upper()
UpperStr(s) == [i \in 1..Len(s) |-> UpperChar(s[i])]

\* c.lower() for one character, and s.lower()
LowerChar(c) ==
    IF \E i \in 1..Len(Upper) : Upper[i] = c
    THEN Lower[CHOOSE i \in 1..Len(Upper) : Upper[i] = c]
    ELSE c

LowerStr(s) == [i \in 1..Len(s) |-> LowerChar(s[i])]

Digits == {"0", "1", "2", "3", "4", "5", "6", "7", "8", "9"}

\* c.isalpha() and c.isalnum() for one ASCII character
isalpha(c) == \E i \in 1..Len(Lower) : Lower[i] = c \/ Upper[i] = c

isalnum(c) == isalpha(c) \/ c \in Digits

\* the length of the longest prefix of s without a space
WordLen(s) ==
    IF \E i \in 1..Len(s) : s[i] = SP
    THEN (CHOOSE i \in 1..Len(s) :
              s[i] = SP /\ \A j \in 1..(i - 1) : s[j] # SP) - 1
    ELSE Len(s)

\* s.split(): the maximal runs of characters other than the space
RECURSIVE split(_)
split(s) ==
    IF Len(s) = 0
    THEN << >>
    ELSE IF s[1] = SP
         THEN split(Tail(s))
         ELSE <<SubSeq(s, 1, WordLen(s))>> \o split(From(s, WordLen(s)))

\* ''.join(c for c in w if c.isalnum())
CleanWord(w) == SelectSeq(w, isalnum)

\* the concatenation of the sequences of ss
RECURSIVE Flatten(_)
Flatten(ss) == IF Len(ss) = 0 THEN << >> ELSE Head(ss) \o Flatten(Tail(ss))

(* ---------------------------------------------------------------------- *)
(* Landmarks                                                               *)
(* ---------------------------------------------------------------------- *)
\* pts[i][0] and pts[i][1]
PX(p, i) == p[i + 1][1]
PY(p, i) == p[i + 1][2]

\* distance(a, b) > t, for integer points: sqrt(d2) > t  <=>  d2 > t * t
DistSq(a, b) == ((a[1] - b[1]) * (a[1] - b[1])) + ((a[2] - b[2]) * (a[2] - b[2]))
\* DistanceGT with the threshold itself counted as exceeding it (>=)
DistanceGT_Inclusive(p, i, j, t) == DistSq(p[i + 1], p[j + 1]) >= t * t

DistanceGT(p, i, j, t) == DistSq(p[i + 1], p[j + 1]) > t * t

(* ---------------------------------------------------------------------- *)
(* Geometric disambiguation: predict, lines 532-565                        *)
(* ---------------------------------------------------------------------- *)
\* ClassRule with the comparison of class 2 inverted
ClassRule_SwapCO(ch1, p) ==
    CASE ch1 = 0 -> LET a == IF PX(p, 4) < PX(p, 6) THEN "A" ELSE "S"
                    IN  IF PY(p, 4) > PY(p, 8) THEN "E" ELSE a
      [] ch1 = 2 -> IF DistanceGT(p, 12, 4, ThreshCO) THEN "O" ELSE "C"
      [] ch1 = 3 -> IF DistanceGT(p, 8, 12, ThreshGH) THEN "G" ELSE "H"
      [] ch1 = 4 -> "L"
      [] ch1 = 5 -> "P"
      [] ch1 = 6 -> "X"
      [] ch1 = 7 -> IF DistanceGT(p, 8, 4, ThreshYJ) THEN "Y" ELSE "J"
      [] ch1 = 1 -> IF PY(p, 6) > PY(p, 8) /\ PY(p, 10) > PY(p, 12) THEN "B"
                    ELSE IF PY(p, 6) > PY(p, 8) /\ PY(p, 10) < PY(p, 12) THEN "D"
                    ELSE "F"
      [] OTHER -> ch1

\* ClassRule with the two tests of class 0 in the other order: A overrides E
ClassRule_AWins(ch1, p) ==
    CASE ch1 = 0 -> LET e == IF PY(p, 4) > PY(p, 8) THEN "E" ELSE "S"
                    IN  IF PX(p, 4) < PX(p, 6) THEN "A" ELSE e
      [] ch1 = 2 -> IF DistanceGT(p, 12, 4, ThreshCO) THEN "C" ELSE "O"
      [] ch1 = 3 -> IF DistanceGT(p, 8, 12, ThreshGH) THEN "G" ELSE "H"
      [] ch1 = 4 -> "L"
      [] ch1 = 5 -> "P"
      [] ch1 = 6 -> "X"
      [] ch1 = 7 -> IF DistanceGT(p, 8, 4, ThreshYJ) THEN "Y" ELSE "J"
      [] ch1 = 1 -> IF PY(p, 6) > PY(p, 8) /\ PY(p, 10) > PY(p, 12) THEN "B"
                    ELSE IF PY(p, 6) > PY(p, 8) /\ PY(p, 10) < PY(p, 12) THEN "D"
                    ELSE "F"
      [] OTHER -> ch1

\* ClassRule whose test for B also accepts equal coordinates
ClassRule_LooseB(ch1, p) ==
    CASE ch1 = 0 -> LET a == IF PX(p, 4) < PX(p, 6) THEN "A" ELSE "S"
                    IN  IF PY(p, 4) > PY(p, 8) THEN "E" ELSE a
      [] ch1 = 2 -> IF DistanceGT(p, 12, 4, ThreshCO) THEN "C" ELSE "O"
      [] ch1 = 3 -> IF DistanceGT(p, 8, 12, ThreshGH) THEN "G" ELSE "H"
      [] ch1 = 4 -> "L"
      [] ch1 = 5 -> "P"
      [] ch1 = 6 -> "X"
      [] ch1 = 7 -> IF DistanceGT(p, 8, 4, ThreshYJ) THEN "Y" ELSE "J"
      [] ch1 = 1 -> IF PY(p, 6) >= PY(p, 8) /\ PY(p, 10) >= PY(p, 12) THEN "B"
                    ELSE IF PY(p, 6) > PY(p, 8) /\ PY(p, 10) < PY(p, 12) THEN "D"
                    ELSE "F"
      [] OTHER -> ch1

\* ClassRule with the letters of classes 5 and 6 exchanged
ClassRule_SwapPX(ch1, p) ==
    CASE ch1 = 0 -> LET a == IF PX(p, 4) < PX(p, 6) THEN "A" ELSE "S"
                    IN  IF PY(p, 4) > PY(p, 8) THEN "E" ELSE a
      [] ch1 = 2 -> IF DistanceGT(p, 12, 4, ThreshCO) THEN "C" ELSE "O"
      [] ch1 = 3 -> IF DistanceGT(p, 8, 12, ThreshGH) THEN "G" ELSE "H"
      [] ch1 = 4 -> "L"
      [] ch1 = 5 -> "X"
      [] ch1 = 6 -> "P"
      [] ch1 = 7 -> IF DistanceGT(p, 8, 4, ThreshYJ) THEN "Y" ELSE "J"
      [] ch1 = 1 -> IF PY(p, 6) > PY(p, 8) /\ PY(p, 10) > PY(p, 12) THEN "B"
                    ELSE IF PY(p, 6) > PY(p, 8) /\ PY(p, 10) < PY(p, 12) THEN "D"
                    ELSE "F"
      [] OTHER -> ch1

\* the class rule with a Backspace gesture in class 6
ClassRule_Backspace(ch1, p) ==
    CASE ch1 = 0 -> LET a == IF PX(p, 4) < PX(p, 6) THEN "A" ELSE "S"
                    IN  IF PY(p, 4) > PY(p, 8) THEN "E" ELSE a
      [] ch1 = 2 -> IF DistanceGT(p, 12, 4, ThreshCO) THEN "C" ELSE "O"
      [] ch1 = 3 -> IF DistanceGT(p, 8, 12, ThreshGH) THEN "G" ELSE "H"
      [] ch1 = 4 -> "L"
      [] ch1 = 5 -> "P"
      [] ch1 = 6 -> "Backspace"
      [] ch1 = 7 -> IF DistanceGT(p, 8, 4, ThreshYJ) THEN "Y" ELSE "J"
      [] ch1 = 1 -> IF PY(p, 6) > PY(p, 8) /\ PY(p, 10) > PY(p, 12) THEN "B"
                    ELSE IF PY(p, 6) > PY(p, 8) /\ PY(p, 10) < PY(p, 12) THEN "D"
                    ELSE "F"
      [] OTHER -> ch1

\* the class-specific rule (if/elif chain on ch1)
ClassRule(ch1, p) ==
    CASE ch1 = 0 -> LET a == IF PX(p, 4) < PX(p, 6) THEN "A" ELSE "S"
                    IN  IF PY(p, 4) > PY(p, 8) THEN "E" ELSE a
      [] ch1 = 2 -> IF DistanceGT(p, 12, 4, ThreshCO) THEN "C" ELSE "O"
      [] ch1 = 3 -> IF DistanceGT(p, 8, 12, ThreshGH) THEN "G" ELSE "H"
      [] ch1 = 4 -> "L"
      [] ch1 = 5 -> "P"
      [] ch1 = 6 -> "X"
      [] ch1 = 7 -> IF DistanceGT(p, 8, 4, ThreshYJ) THEN "Y" ELSE "J"
      [] ch1 = 1 -> IF PY(p, 6) > PY(p, 8) /\ PY(p, 10) > PY(p, 12) THEN "B"
                    ELSE IF PY(p, 6) > PY(p, 8) /\ PY(p, 10) < PY(p, 12) THEN "D"
                    ELSE "F"
      [] OTHER -> ch1

\* SpaceCond with the test of the middle finger inverted
SpaceCond_MiddleBent(p) ==
    /\ PY(p, 6) > PY(p, 8)
    /\ PY(p, 10) > PY(p, 12)
    /\ PY(p, 14) < PY(p, 16)
    /\ PY(p, 18) > PY(p, 20)

\* the condition of the first special gesture (space)
SpaceCond(p) ==
    /\ PY(p, 6) > PY(p, 8)
    /\ PY(p, 10) < PY(p, 12)
    /\ PY(p, 14) < PY(p, 16)
    /\ PY(p, 18) > PY(p, 20)

\* NextCond with the thumb test mirrored
NextCond_ThumbRight(p) ==
    /\ PX(p, 4) > PX(p, 5)
    /\ PY(p, 6) > PY(p, 8)
    /\ PY(p, 10) > PY(p, 12)
    /\ PY(p, 14) > PY(p, 16)

\* NextCond without the tests of the middle and the ring finger
NextCond_IndexOnly(p) ==
    /\ PX(p, 4) < PX(p, 5)
    /\ PY(p, 6) > PY(p, 8)

\* the condition of the second special gesture (next)
NextCond(p) ==
    /\ PX(p, 4) < PX(p, 5)
    /\ PY(p, 6) > PY(p, 8)
    /\ PY(p, 10) > PY(p, 12)
    /\ PY(p, 14) > PY(p, 16)

\* SpaceOverride that assigns the name of the gesture, not the character
SpaceOverride_Named(ch1, p) == IF SpaceCond(p) THEN "Space" ELSE ch1

SpaceOverride(ch1, p) == IF SpaceCond(p) THEN SP ELSE ch1

NextOverride(ch1, p) == IF NextCond(p) THEN "next" ELSE ch1

\* the value of ch1 at line 566, for coarse class cls and landmarks p
Resolve(cls, p) == NextOverride(SpaceOverride(ClassRule(cls, p), p), p)

(* ---------------------------------------------------------------------- *)
(* Inputs                                                                  *)
(* ---------------------------------------------------------------------- *)
\* a hand at rest: 21 landmarks, no comparison of the rules holds
PoseRest == [i \in 1..MinPts |-> <<50, 50>>]

SetPt(p, i, x, y) == [p EXCEPT ![i + 1] = <<x, y>>]

\* thumb tip left of the index finger (class 0 reads it as A)
PoseThumbLeft == SetPt(PoseRest, 4, 40, 50)

\* thumb tip below the index finger tip (class 0 reads it as E)
PoseThumbLow == SetPt(PoseRest, 4, 50, 60)

\* index, middle and ring finger up, thumb left of the index knuckle
PoseNext ==
    SetPt(SetPt(SetPt(SetPt(PoseRest, 4, 40, 50), 8, 50, 40), 12, 50, 40), 16, 50, 40)

\* index and little finger up, middle and ring finger down
PoseSpace ==
    SetPt(SetPt(SetPt(SetPt(PoseRest, 8, 50, 40), 12, 50, 60), 16, 50, 60), 20, 50, 40)

\* a landmark list that is too short
PoseShort == SubSeq(PoseRest, 1, MinPts - 1)

\* the hand shapes and coarse classes of the frames of Spec: they resolve
\* to A (class 0), L (class 4), space and next
FramePoses == {PoseThumbLeft, PoseNext, PoseSpace}
FrameClasses == {0, 4}

\* candidate words of the dictionary collaborator
CandSea == <<"s", "e", "a">>
CandSee == <<"s", "e", "e">>
CandSet == <<"S", "e", "t">>
CandSaw == <<"s", "a", "w">>
CandSay == <<"s", "a", "y">>

\* the lists ddd.suggest may return
SuggestResults ==
    { << >>,
      <<CandSea, CandSet>>,
      <<CandSea, CandSee, CandSet, CandSaw, CandSay>> }

(* ---------------------------------------------------------------------- *)
(* State                                                                   *)
(* ---------------------------------------------------------------------- *)
VARIABLES
    current_mode,    \* "asl_to_voice" or "voice_to_asl"
    vs,              \* camera handle: "None" or "open"
    model,           \* classifier: "None" or "loaded"
    loops,           \* number of pending root.after(30, video_loop) callbacks
    str,             \* the sentence
    word,            \* self.word
    current_symbol,
    prev_char,
    count,
    ten_prev_char,   \* [0..9 -> symbol]
    pts,             \* self.pts
    word1, word2, word3, word4,
    resolved_log,    \* history variable: every symbol predict resolved, in order
    suggest_arg,     \* history variable: the word of the last ddd.suggest call
    suggest_ret,     \* history variable: the list that call returned
    listen_btn,      \* state of the listen button: "normal" or "disabled"
    worker,          \* number of running listen_thread threads
    posted,          \* process_recognized_text callbacks posted with root.after(0, ...)
    current_images,  \* the signs of the playback
    animation_index,
    is_playing,
    anim_timers,     \* number of pending root.after(800, animate_next) callbacks
    shown            \* history variable: the signs displayed since the playback started

engine == <<str, word, current_symbol, prev_char, count, ten_prev_char,
            word1, word2, word3, word4, resolved_log, suggest_arg, suggest_ret>>
camera == <<current_mode, vs, model, loops>>
playback == <<current_images, animation_index, is_playing, anim_timers, shown>>
listening == <<listen_btn, worker, posted>>
voice == <<listen_btn, worker, posted, current_images, animation_index,
           is_playing, anim_timers, shown>>
vars == <<current_mode, vs, model, loops, str, word, current_symbol, prev_char,
          count, ten_prev_char, pts, word1, word2, word3, word4, resolved_log,
          suggest_arg, suggest_ret, listen_btn, worker, posted, current_images,
          animation_index, is_playing, anim_timers, shown>>

\* __init__, up to the call of setup_ui
InitEngine ==
    /\ str = <<SP>>
    /\ word = <<SP>>
    /\ current_symbol = ""
    /\ prev_char = ""
    /\ count = -1
    /\ ten_prev_char = [i \in 0..(HistLen - 1) |-> SP]
    /\ pts = << >>
    /\ word1 = <<SP>>
    /\ word2 = <<SP>>
    /\ word3 = <<SP>>
    /\ word4 = <<SP>>
    /\ resolved_log = << >>
    /\ suggest_arg = << >>
    /\ suggest_ret = << >>
    /\ listen_btn = "normal"
    /\ worker = 0
    /\ posted = << >>
    /\ current_images = << >>
    /\ animation_index = 0
    /\ is_playing = FALSE
    /\ anim_timers = 0
    /\ shown = << >>

(* ---------------------------------------------------------------------- *)
(* predict                                                                 *)
(* ---------------------------------------------------------------------- *)
\* Commit without the rising-edge test: every Next frame commits
Commit_NoEdge(s, hist, cnt, prev, ch1) ==
    IF ch1 = "next"
    THEN IF hist[(cnt - Lookback) % HistLen] # "next"
         THEN IF hist[(cnt - Lookback) % HistLen] = "Backspace"
              THEN ButLast(s)
              ELSE Append(s, hist[(cnt - Lookback) % HistLen])
         ELSE s
    ELSE s

\* Commit that also appends a letter or space as soon as it is resolved
Commit_Direct(s, hist, cnt, prev, ch1) ==
    IF ch1 = "next" /\ prev # "next"
    THEN IF hist[(cnt - Lookback) % HistLen] # "next"
         THEN IF hist[(cnt - Lookback) % HistLen] = "Backspace"
              THEN ButLast(s)
              ELSE Append(s, hist[(cnt - Lookback) % HistLen])
         ELSE s
    ELSE IF ch1 # "next" THEN Append(s, ch1) ELSE s

\* Commit without the test that the looked-back symbol is not Next
Commit_NoNextGuard(s, hist, cnt, prev, ch1) ==
    IF ch1 = "next" /\ prev # "next"
    THEN IF hist[(cnt - Lookback) % HistLen] = "Backspace"
         THEN ButLast(s)
         ELSE Append(s, hist[(cnt - Lookback) % HistLen])
    ELSE s

\* Commit that looks back one slot less
Commit_Lookback1(s, hist, cnt, prev, ch1) ==
    IF ch1 = "next" /\ prev # "next"
    THEN IF hist[(cnt - 1) % HistLen] # "next"
         THEN IF hist[(cnt - 1) % HistLen] = "Backspace"
              THEN ButLast(s)
              ELSE Append(s, hist[(cnt - 1) % HistLen])
         ELSE s
    ELSE s

\* Commit that treats Backspace like a letter
Commit_NoBackspace(s, hist, cnt, prev, ch1) ==
    IF ch1 = "next" /\ prev # "next"
    THEN IF hist[(cnt - Lookback) % HistLen] # "next"
         THEN Append(s, hist[(cnt - Lookback) % HistLen])
         ELSE s
    ELSE s

\* "Handle character addition": the sentence after the commit decision
Commit(s, hist, cnt, prev, ch1) ==
    IF ch1 = "next" /\ prev # "next"
    THEN IF hist[(cnt - Lookback) % HistLen] # "next"
         THEN IF hist[(cnt - Lookback) % HistLen] = "Backspace"
              THEN ButLast(s)
              ELSE Append(s, hist[(cnt - Lookback) % HistLen])
         ELSE s
    ELSE s

\* Record that writes before the counter is incremented
Record_PreIncrement(hist, cnt, ch1) == [hist EXCEPT ![cnt % HistLen] = ch1]

\* the history after "self.count += 1; self.ten_prev_char[self.count % 10] = ch1"
Record(hist, cnt, ch1) == [hist EXCEPT ![(cnt + 1) % HistLen] = ch1]

\* SuggestArg that folds the word to lower case first
SuggestArg_Lower(w) == LowerStr(w)

\* the argument of ddd.suggest(word): the word as it stands in the sentence
SuggestArg(w) == w

\* Slot that reads the candidates from the end of the list
Slot_Reversed(suggestions, k) ==
    IF Len(suggestions) >= k
    THEN suggestions[Len(suggestions) + 1 - k]
    ELSE <<SP>>

\* suggestions[k - 1] if len(suggestions) >= k else " "
Slot(suggestions, k) == IF Len(suggestions) >= k THEN suggestions[k] ELSE <<SP>>

\* ActiveWord that cuts after the first space instead of the last
ActiveWord_FirstSpace(s) ==
    IF \E i \in 1..Len(s) : s[i] = SP
    THEN SubSeq(s, (CHOOSE i \in 1..Len(s) :
                       s[i] = SP /\ \A j \in 1..(i - 1) : s[j] # SP) + 1, Len(s))
    ELSE s

\* the word being spelled: s[s.rfind(" ") + 1:]
ActiveWord(s) == From(s, RFind(s) + 1)

\* "Update word suggestions", for the sentence s; ddd.suggest(word) is the
\* dictionary collaborator, which answers with one of SuggestResults
UpdateSuggestions(s) ==
    IF Len(Strip(s)) # 0
    THEN LET w == ActiveWord(s)
         IN  /\ word' = w
             /\ IF Len(Strip(w)) # 0
                THEN \E suggestions \in SuggestResults :
                        /\ suggest_arg' = SuggestArg(w)
                        /\ suggest_ret' = suggestions
                        /\ word1' = Slot(suggestions, 1)
                        /\ word2' = Slot(suggestions, 2)
                        /\ word3' = Slot(suggestions, 3)
                        /\ word4' = Slot(suggestions, 4)
                ELSE UNCHANGED <<word1, word2, word3, word4,
                                 suggest_arg, suggest_ret>>
    ELSE UNCHANGED <<word, word1, word2, word3, word4, suggest_arg, suggest_ret>>

\* lines 567-590 of predict, with ch1 resolved
Step(ch1) ==
    LET s == Commit(str, ten_prev_char, count, prev_char, ch1)
    IN  /\ str' = s
        /\ prev_char' = ch1
        /\ current_symbol' = ch1
        /\ count' = count + 1
        /\ ten_prev_char' = Record(ten_prev_char, count, ch1)
        /\ resolved_log' = Append(resolved_log, ch1)
        /\ UpdateSuggestions(s)

\* predict(test_image) with self.model = mdl, self.pts = p and the
\* classifier's argmax cls
predict(mdl, p, cls) ==
    IF mdl = "None" \/ Len(p) < MinPts
    THEN UNCHANGED engine
    ELSE Step(Resolve(cls, p))

(* ---------------------------------------------------------------------- *)
(* video_loop                                                              *)
(* ---------------------------------------------------------------------- *)
\* What the camera and the two hand detectors deliver for one frame: no
\* hand (read failed, no hand, empty crop or no hand in the crop), or a
\* landmark list p together with the classifier's argmax cls for the
\* skeleton image drawn from it.
NoHand == [hand |-> FALSE]

\* a frame the camera failed to deliver: vs.read() returned ok = False
ReadFailed == [hand |-> FALSE, ok |-> FALSE]
Seen(p, cls) == [hand |-> TRUE, p |-> p, cls |-> cls]
Frames ==
    {NoHand} \cup {Seen(PoseShort, 0)}
             \cup {Seen(p, cls) : p \in FramePoses, cls \in FrameClasses}

\* a frame that must be dropped: no hand, or fewer than 21 landmarks
Dropped(f) == ~f.hand \/ Len(f.p) < MinPts

\* ProcessFrame without the test for a hand: a frame without one runs
\* predict on the landmarks of an earlier frame
ProcessFrame_NoHandTest(mdl, f) ==
    IF ~f.hand
    THEN /\ UNCHANGED pts
         /\ predict(mdl, pts, 0)
    ELSE /\ pts' = f.p
         /\ IF Len(f.p) < MinPts
            THEN UNCHANGED engine
            ELSE predict(mdl, f.p, f.cls)

\* One run of video_loop's try block (lines 421-509) on the frame f.
\* Drawing the skeleton indexes pts[0..20] before predict is called: a
\* shorter list raises IndexError, which the except clause swallows.
ProcessFrame(mdl, f) ==
    IF ~f.hand
    THEN UNCHANGED <<engine, pts>>
    ELSE /\ pts' = f.p
         /\ IF Len(f.p) < MinPts
            THEN UNCHANGED engine
            ELSE predict(mdl, f.p, f.cls)

\* the body of video_loop that does not schedule itself again after a
\* frame it had to drop
VideoLoopBody_DiesOnDrop(mode, cam, mdl, pending, f) ==
    IF mode # "asl_to_voice" \/ cam = "None"
    THEN /\ loops' = pending
         /\ UNCHANGED <<engine, pts>>
    ELSE /\ loops' = IF Dropped(f) THEN pending ELSE pending + 1
         /\ ProcessFrame(mdl, f)

\* the body of video_loop, run with pending callbacks outstanding; it
\* schedules one more unless the guard at its top returns
VideoLoopBody(mode, cam, mdl, pending, f) ==
    IF mode # "asl_to_voice" \/ cam = "None"
    THEN /\ loops' = pending
         /\ UNCHANGED <<engine, pts>>
    ELSE /\ loops' = pending + 1
         /\ ProcessFrame(mdl, f)

\* a pending root.after(30, self.video_loop) callback fires, and the camera
\* delivers the frame f
video_loop(f) ==
    /\ loops > 0
    /\ VideoLoopBody(current_mode, vs, model, loops - 1, f)
    /\ UNCHANGED <<current_mode, vs, model>>
    /\ UNCHANGED voice

(* ---------------------------------------------------------------------- *)
(* Mode switching                                                          *)
(* ---------------------------------------------------------------------- *)
\* start_camera: open the camera, load the model if there is none (it may
\* fail, and then the loop is not started), then call video_loop directly,
\* which reads the frame f
start_camera(f) ==
    /\ vs' = "open"
    /\ \/ /\ model = "None"
          /\ UNCHANGED <<model, loops, engine, pts>>
       \/ /\ model' = "loaded"
          /\ VideoLoopBody("asl_to_voice", "open", "loaded", loops, f)

\* stop_camera
stop_camera ==
    /\ vs' = "None"
    /\ UNCHANGED <<model, loops, engine, pts>>

\* switch_mode, called when the user clicks the radio button of mode
switch_mode(mode, f) ==
    /\ current_mode' = mode
    /\ IF mode = "asl_to_voice"
       THEN start_camera(f)
       ELSE stop_camera
    /\ UNCHANGED voice

(* ---------------------------------------------------------------------- *)
(* Buttons of the ASL panel                                                *)
(* ---------------------------------------------------------------------- *)
\* apply_suggestion that appends the candidate to the sentence
apply_suggestion_Append(num) ==
    LET words == <<word1, word2, word3, word4>>
    IN  /\ current_mode = "asl_to_voice"
        /\ IF num <= Len(words) /\ Len(Strip(words[num])) # 0
           THEN str' = str \o UpperStr(words[num])
           ELSE UNCHANGED str
        /\ UNCHANGED <<camera, pts, word, current_symbol, prev_char, count,
                       ten_prev_char, word1, word2, word3, word4, resolved_log,
                       suggest_arg, suggest_ret>>
        /\ UNCHANGED voice

\* apply_suggestion without the test that the slot holds a candidate
apply_suggestion_NoStripTest(num) ==
    LET words == <<word1, word2, word3, word4>>
    IN  /\ current_mode = "asl_to_voice"
        /\ IF num <= Len(words)
           THEN str' = UpTo(str, RFind(str) + 1) \o UpperStr(words[num])
           ELSE UNCHANGED str
        /\ UNCHANGED <<camera, pts, word, current_symbol, prev_char, count,
                       ten_prev_char, word1, word2, word3, word4, resolved_log,
                       suggest_arg, suggest_ret>>
        /\ UNCHANGED voice

\* apply_suggestion(num)
apply_suggestion(num) ==
    LET words == <<word1, word2, word3, word4>>
    IN  /\ current_mode = "asl_to_voice"
        /\ IF num <= Len(words) /\ Len(Strip(words[num])) # 0
           THEN str' = UpTo(str, RFind(str) + 1) \o UpperStr(words[num])
           ELSE UNCHANGED str
        /\ UNCHANGED <<camera, pts, word, current_symbol, prev_char, count,
                       ten_prev_char, word1, word2, word3, word4, resolved_log,
                       suggest_arg, suggest_ret>>
        /\ UNCHANGED voice

\* clear_text that leaves the suggestion slots as they are
clear_text_KeepSlots ==
    /\ current_mode = "asl_to_voice"
    /\ str' = <<SP>>
    /\ UNCHANGED <<camera, pts, word, current_symbol, prev_char, count,
                   ten_prev_char, resolved_log, suggest_arg, suggest_ret,
                   word1, word2, word3, word4>>
    /\ UNCHANGED voice

\* clear_text that also resets the debounce state to its initial values
clear_text_ResetHistory ==
    /\ current_mode = "asl_to_voice"
    /\ str' = <<SP>>
    /\ word1' = <<SP>>
    /\ word2' = <<SP>>
    /\ word3' = <<SP>>
    /\ word4' = <<SP>>
    /\ prev_char' = ""
    /\ count' = -1
    /\ ten_prev_char' = [i \in 0..(HistLen - 1) |-> SP]
    /\ UNCHANGED <<camera, pts, word, current_symbol, resolved_log,
                   suggest_arg, suggest_ret>>
    /\ UNCHANGED voice

\* clear_text that also stops the playback of the voice panel
clear_text_StopsPlayback ==
    /\ current_mode = "asl_to_voice"
    /\ str' = <<SP>>
    /\ word1' = <<SP>>
    /\ word2' = <<SP>>
    /\ word3' = <<SP>>
    /\ word4' = <<SP>>
    /\ is_playing' = FALSE
    /\ UNCHANGED <<camera, pts, word, current_symbol, prev_char, count,
                   ten_prev_char, resolved_log, suggest_arg, suggest_ret>>
    /\ UNCHANGED <<listening, current_images, animation_index, anim_timers,
                   shown>>

\* clear_text
clear_text ==
    /\ current_mode = "asl_to_voice"
    /\ str' = <<SP>>
    /\ word1' = <<SP>>
    /\ word2' = <<SP>>
    /\ word3' = <<SP>>
    /\ word4' = <<SP>>
    /\ UNCHANGED <<camera, pts, word, current_symbol, prev_char, count,
                   ten_prev_char, resolved_log, suggest_arg, suggest_ret>>
    /\ UNCHANGED voice

(* ---------------------------------------------------------------------- *)
(* Voice to ASL panel                                                      *)
(* ---------------------------------------------------------------------- *)
\* the letter signs display_asl builds from text (lines 655-661); the image
\* of a sign is a function of its character and is left out
LetterSigns(text) ==
    LET chars == Flatten([k \in 1..Len(split(text)) |->
                              SelectSeq(CleanWord(split(text)[k]), isalpha)])
    IN  [k \in 1..Len(chars) |-> [type |-> "letter", char |-> chars[k]]]

\* the body of animate_next that returns at the end of the list without
\* clearing is_playing
AnimateNextBody_KeepsPlaying(images, idx, playing, timers, log) ==
    IF ~playing \/ idx >= Len(images)
    THEN /\ is_playing' = playing
         /\ animation_index' = idx
         /\ anim_timers' = timers
         /\ shown' = log
    ELSE /\ is_playing' = playing
         /\ animation_index' = idx + 1
         /\ anim_timers' = timers + 1
         /\ shown' = Append(log, [index |-> idx, char |-> images[idx + 1].char])

\* the body of animate_next without the test of is_playing
AnimateNextBody_NoPlayingTest(images, idx, playing, timers, log) ==
    IF idx >= Len(images)
    THEN /\ is_playing' = FALSE
         /\ animation_index' = idx
         /\ anim_timers' = timers
         /\ shown' = log
    ELSE /\ is_playing' = playing
         /\ animation_index' = idx + 1
         /\ anim_timers' = timers + 1
         /\ shown' = Append(log, [index |-> idx, char |-> images[idx + 1].char])

\* the body of animate_next on the playback (images, idx, playing), with
\* timers callbacks pending and log the signs displayed so far; it displays
\* images[idx] and schedules itself again unless the guard at its top returns
AnimateNextBody(images, idx, playing, timers, log) ==
    IF ~playing \/ idx >= Len(images)
    THEN /\ is_playing' = FALSE
         /\ animation_index' = idx
         /\ anim_timers' = timers
         /\ shown' = log
    ELSE /\ is_playing' = playing
         /\ animation_index' = idx + 1
         /\ anim_timers' = timers + 1
         /\ shown' = Append(log, [index |-> idx, char |-> images[idx + 1].char])

\* display_asl(text)
display_asl(text) ==
    /\ current_images' = LetterSigns(text)
    /\ IF Len(LetterSigns(text)) = 0
       THEN UNCHANGED <<animation_index, is_playing, anim_timers, shown>>
       ELSE AnimateNextBody(LetterSigns(text), 0, TRUE, anim_timers, << >>)

\* a pending root.after(800, self.animate_next) callback fires
animate_next ==
    /\ anim_timers > 0
    /\ AnimateNextBody(current_images, animation_index, is_playing,
                       anim_timers - 1, shown)
    /\ UNCHANGED <<current_images, listening, camera, engine, pts>>

\* stop_animation, the command of the Stop button, which is enabled from
\* display_asl until the playback ends (lines 668, 677, 698)
stop_animation ==
    /\ current_mode = "voice_to_asl"
    /\ is_playing
    /\ is_playing' = FALSE
    /\ UNCHANGED <<current_images, animation_index, anim_timers, shown,
                   listening, camera, engine, pts>>

\* start_listening, the command of the Listen button
start_listening ==
    /\ current_mode = "voice_to_asl"
    /\ listen_btn = "normal"
    /\ listen_btn' = "disabled"
    /\ worker' = worker + 1
    /\ UNCHANGED <<posted, playback, camera, engine, pts>>

\* the callback listen_thread posts when the recognizer returns text
Recognized(text) == [ok |-> TRUE, text |-> LowerStr(text)]

\* the callback it posts when the recognizer raises
NotRecognized == [ok |-> FALSE, text |-> << >>]

\* listen_thread that calls process_recognized_text from the worker thread
listen_thread_Direct(cb) ==
    /\ worker > 0
    /\ worker' = worker - 1
    /\ listen_btn' = "normal"
    /\ IF cb.ok /\ Len(cb.text) # 0
       THEN display_asl(cb.text)
       ELSE UNCHANGED playback
    /\ UNCHANGED <<posted, camera, engine, pts>>

\* listen_thread that posts nothing when the recognizer raises
listen_thread_Silent(cb) ==
    /\ worker > 0
    /\ worker' = worker - 1
    /\ posted' = IF cb.ok THEN Append(posted, cb) ELSE posted
    /\ UNCHANGED <<listen_btn, playback, camera, engine, pts>>

\* listen_thread, run to its end by a worker thread: the recognizer returns
\* or raises, and the thread posts the callback cb
listen_thread(cb) ==
    /\ worker > 0
    /\ worker' = worker - 1
    /\ posted' = Append(posted, cb)
    /\ UNCHANGED <<listen_btn, playback, camera, engine, pts>>

\* process_recognized_text, run by the main loop for the first posted
\* callback
process_recognized_text ==
    /\ Len(posted) > 0
    /\ posted' = Tail(posted)
    /\ listen_btn' = "normal"
    /\ IF Head(posted).ok /\ Len(Head(posted).text) # 0
       THEN display_asl(Head(posted).text)
       ELSE UNCHANGED playback
    /\ UNCHANGED <<worker, camera, engine, pts>>

\* process_text_input, with entry the content of the text entry
process_text_input(entry) ==
    /\ current_mode = "voice_to_asl"
    /\ IF Len(Strip(entry)) # 0
       THEN display_asl(Strip(entry))
       ELSE UNCHANGED playback
    /\ UNCHANGED <<listening, camera, engine, pts>>

(* ---------------------------------------------------------------------- *)
(* The stand-alone voice to ASL translator (src/voice_to_asl.py)           *)
(* ---------------------------------------------------------------------- *)
\* ASLTranslator.COMMON_WORDS
COMMON_WORDS ==
    { <<"h", "e", "l", "l", "o">>,
      <<"t", "h", "a", "n", "k", SP, "y", "o", "u">>,
      <<"p", "l", "e", "a", "s", "e">>,
      <<"s", "o", "r", "r", "y">>,
      <<"y", "e", "s">>,
      <<"n", "o">>,
      <<"h", "e", "l", "p">>,
      <<"l", "o", "v", "e">>,
      <<"f", "r", "i", "e", "n", "d">>,
      <<"f", "a", "m", "i", "l", "y">>,
      <<"g", "o", "o", "d">>,
      <<"b", "a", "d">>,
      <<"n", "a", "m", "e">>,
      <<"w", "h", "a", "t">>,
      <<"w", "h", "e", "r", "e">>,
      <<"w", "h", "e", "n">>,
      <<"w", "h", "y">>,
      <<"h", "o", "w">>,
      <<"w", "a", "t", "e", "r">>,
      <<"f", "o", "o", "d">>,
      <<"e", "a", "t">>,
      <<"d", "r", "i", "n", "k">>,
      <<"h", "o", "m", "e">>,
      <<"w", "o", "r", "k">>,
      <<"s", "c", "h", "o", "o", "l">>,
      <<"l", "e", "a", "r", "n">>,
      <<"u", "n", "d", "e", "r", "s", "t", "a", "n", "d">>,
      <<"k", "n", "o", "w">>,
      <<"w", "a", "n", "t">>,
      <<"n", "e", "e", "d">>,
      <<"l", "i", "k", "e">>,
      <<"n", "i", "c", "e">>,
      <<"m", "e", "e", "t">>,
      <<"w", "e", "l", "c", "o", "m", "e">> }

\* ASLTranslator.get_asl_for_word: the signs of one word
get_asl_for_word(w) ==
    LET chars == SelectSeq(Strip(LowerStr(w)), isalpha)
    IN  [k \in 1..Len(chars) |-> [type |-> "letter", char |-> chars[k]]]

\* the pair get_asl_for_text builds for one word of the text
WordAsl(w) == [word |-> CleanWord(w), signs |-> get_asl_for_word(CleanWord(w))]

HasSigns(pair) == Len(pair.word) # 0 /\ Len(pair.signs) # 0

\* ASLTranslator.get_asl_for_text: a (clean word, signs) pair for every word
\* that has signs
get_asl_for_text(text) ==
    SelectSeq([k \in 1..Len(split(text)) |-> WordAsl(split(text)[k])], HasSigns)

\* the entries display_asl makes of the signs of one pair
ImagesOf(pair) ==
    [k \in 1..Len(pair.signs) |->
        [type |-> pair.signs[k].type,
         char |-> pair.signs[k].char,
         word |-> IF pair.signs[k].type = "word" THEN pair.word ELSE "None"]]

\* ASLTranslatorGUI.display_asl
GUI_display_asl(text) ==
    LET asl_data == get_asl_for_text(text)
        images == Flatten([k \in 1..Len(asl_data) |-> ImagesOf(asl_data[k])])
    IN  IF Len(asl_data) = 0
        THEN UNCHANGED playback
        ELSE /\ current_images' = images
             /\ AnimateNextBody(images, 0, TRUE, anim_timers, << >>)

\* ASLTranslatorGUI.animate_next: a pending root.after(delay, animate_next)
\* callback fires
GUI_animate_next ==
    /\ anim_timers > 0
    /\ AnimateNextBody(current_images, animation_index, is_playing,
                       anim_timers - 1, shown)
    /\ UNCHANGED <<current_images, listening, camera, engine, pts>>

\* ASLTranslatorGUI.stop_animation, the command of the Stop button
GUI_stop_animation ==
    /\ is_playing
    /\ is_playing' = FALSE
    /\ UNCHANGED <<current_images, animation_index, anim_timers, shown,
                   listening, camera, engine, pts>>

\* ASLTranslatorGUI.start_listening
GUI_start_listening ==
    /\ listen_btn = "normal"
    /\ listen_btn' = "disabled"
    /\ worker' = worker + 1
    /\ UNCHANGED <<posted, playback, camera, engine, pts>>

\* ASLTranslatorGUI.listen_thread: listen_to_voice returns the lower-cased
\* text or None, and the thread posts the callback cb
GUI_listen_thread(cb) ==
    /\ worker > 0
    /\ worker' = worker - 1
    /\ posted' = Append(posted, cb)
    /\ UNCHANGED <<listen_btn, playback, camera, engine, pts>>

\* ASLTranslatorGUI.listen_thread when listen_to_voice raises: opening the
\* microphone and adjusting for ambient noise (lines 292-294) are outside
\* its try block, and the try block catches three exception classes only.
\* The exception ends the thread before line 554.
GUI_listen_thread_raises ==
    /\ worker > 0
    /\ worker' = worker - 1
    /\ UNCHANGED <<listen_btn, posted, playback, camera, engine, pts>>

\* ASLTranslatorGUI.process_recognized_text
GUI_process_recognized_text ==
    /\ Len(posted) > 0
    /\ posted' = Tail(posted)
    /\ listen_btn' = "normal"
    /\ IF Head(posted).ok /\ Len(Head(posted).text) # 0
       THEN GUI_display_asl(Head(posted).text)
       ELSE UNCHANGED playback
    /\ UNCHANGED <<worker, camera, engine, pts>>

\* ASLTranslatorGUI.process_text_input
GUI_process_text_input(entry) ==
    /\ IF Len(Strip(entry)) # 0
       THEN GUI_display_asl(Strip(entry))
       ELSE UNCHANGED playback
    /\ UNCHANGED <<listening, camera, engine, pts>>

(* ---------------------------------------------------------------------- *)
(* Specification                                                           *)
(* ---------------------------------------------------------------------- *)
\* The state after construction: __init__ (lines 127-169) and the call of
\* switch_mode at the end of setup_ui, which opens the camera and either
\* fails to load the model or starts the video loop on a frame without a
\* hand.  (A first frame with a hand is the same step as video_loop's.)
Init ==
    /\ current_mode = "asl_to_voice"
    /\ vs = "open"
    /\ \/ model = "None" /\ loops = 0
       \/ model = "loaded" /\ loops = 1
    /\ InitEngine

\* the camera delivers at most MaxFrames frames with a hand, and at most
\* MaxLoops video_loop callbacks are pending
SwitchMode ==
    /\ Len(resolved_log) < MaxFrames
    /\ \E mode \in {"asl_to_voice", "voice_to_asl"}, f \in Frames :
          /\ mode = "asl_to_voice" => loops < MaxLoops
          /\ switch_mode(mode, f)

VideoLoop ==
    /\ Len(resolved_log) < MaxFrames
    /\ \E f \in Frames : video_loop(f)

ApplySuggestion == \E num \in 1..NumSlots : apply_suggestion(num)

Next ==
    \/ SwitchMode
    \/ VideoLoop
    \/ ApplySuggestion
    \/ clear_text

Spec == Init /\ [][Next]_vars

\* SpecRing: the video loop alone, on frames that resolve to A or Next, long
\* enough for the history buffer to wrap around
RingFrames == {Seen(PoseThumbLeft, 0), Seen(PoseNext, 0)}

RingLoop ==
    /\ Len(resolved_log) < MaxRingFrames
    /\ \E f \in RingFrames : video_loop(f)

NextRing == RingLoop

SpecRing == Init /\ [][NextRing]_vars

\* SpecStep: the commit stage of predict (lines 567-590) fed with every kind
\* of resolved symbol its code distinguishes.  The rules of lines 532-565
\* never resolve "Backspace"; line 570 tests for it.
StepSymbols == {"A", SP, "Backspace", "next"}

StepFrame ==
    /\ model = "loaded"
    /\ Len(resolved_log) < MaxStepFrames
    /\ \E ch1 \in StepSymbols : Step(ch1)
    /\ UNCHANGED <<camera, pts>>
    /\ UNCHANGED voice

NextStep ==
    \/ StepFrame
    \/ ApplySuggestion
    \/ clear_text

SpecStep == Init /\ [][NextStep]_vars

\* SpecHello: the video loop on a signer who spells H, E, L, L, O and a
\* space, holding every sign for a number of frames in HoldLens and the
\* Next gesture after it for a number of frames in NextLens
HoldLens == 3..4
NextLens == 1..2

Signs == <<"H", "next", "E", "next", "L", "next", "L", "next", "O", "next",
           SP, "next">>

\* the frames of the signer's hand shapes: H (class 3), E (class 0, thumb
\* low), L (class 4), O (class 2), space and Next
HelloFrames ==
    { Seen(PoseRest, 3), Seen(PoseThumbLow, 0), Seen(PoseRest, 4),
      Seen(PoseRest, 2), Seen(PoseSpace, 0), Seen(PoseNext, 0) }

\* the number of runs of equal symbols in l, and the length of its last run
NumRuns(l) == Cardinality({j \in 1..Len(l) : j = 1 \/ l[j] # l[j - 1]})
LastRunLen(l) ==
    Cardinality({j \in 1..Len(l) : \A i \in j..Len(l) : l[i] = l[Len(l)]})

\* the signer, having shown l, may show x next: more of the current sign, or
\* the next sign once the current one has been held long enough
MayShow(l, x) ==
    LET k == NumRuns(l)
        c == LastRunLen(l)
        lens(n) == IF Signs[n] = "next" THEN NextLens ELSE HoldLens
    IN  \/ /\ k >= 1
           /\ x = Signs[k]
           /\ \E n \in lens(k) : c + 1 <= n
        \/ /\ k < Len(Signs)
           /\ x = Signs[k + 1]
           /\ k >= 1 => c \in lens(k)

HelloLoop ==
    \E f \in HelloFrames :
       /\ MayShow(resolved_log, Resolve(f.cls, f.p))
       /\ video_loop(f)

NextHello == HelloLoop

SpecHello == Init /\ [][NextHello]_vars

\* SpecResolve: predict applied once, for every coarse class, to every
\* landmark list of a grid that puts each pair of coordinates the rules
\* compare in all three orders and each distance on both sides of, and
\* exactly at, its threshold
CoarseClasses == 0..7

GridPoint(i, x5, x6, x8, x12, y4, y6, y8, y10, y12, y16, y20) ==
    CASE i = 4 -> <<100, y4>>
      [] i = 5 -> <<x5, 0>>
      [] i = 6 -> <<x6, y6>>
      [] i = 8 -> <<x8, y8>>
      [] i = 10 -> <<0, y10>>
      [] i = 12 -> <<x12, y12>>
      [] i = 14 -> <<0, 1>>
      [] i = 16 -> <<0, y16>>
      [] i = 18 -> <<0, 1>>
      [] i = 20 -> <<0, y20>>
      [] OTHER -> <<0, 0>>

GridLandmarks ==
    { [i \in 1..MinPts |->
          GridPoint(i - 1, x5, x6, x8, x12, y4, y6, y8, y10, y12, y16, y20)] :
      x5 \in {99, 100, 101}, x6 \in {99, 100, 101}, x8 \in {100, 142, 214},
      x12 \in {100, 142}, y4 \in {0, 1}, y6 \in {0, 1}, y8 \in {0, 1},
      y10 \in {0, 1}, y12 \in {0, 1}, y16 \in {0, 1, 2}, y20 \in {0, 1, 2} }

\* a fresh engine with the model loaded, at line 491 of video_loop: self.pts
\* holds the landmarks of the frame and predict is about to be called
InitResolve ==
    /\ current_mode = "asl_to_voice"
    /\ vs = "open"
    /\ model = "loaded"
    /\ loops = 1
    /\ str = <<SP>>
    /\ word = <<SP>>
    /\ current_symbol = ""
    /\ prev_char = ""
    /\ count = -1
    /\ ten_prev_char = [i \in 0..(HistLen - 1) |-> SP]
    /\ pts \in GridLandmarks
    /\ word1 = <<SP>>
    /\ word2 = <<SP>>
    /\ word3 = <<SP>>
    /\ word4 = <<SP>>
    /\ resolved_log = << >>
    /\ suggest_arg = << >>
    /\ suggest_ret = << >>
    /\ listen_btn = "normal"
    /\ worker = 0
    /\ posted = << >>
    /\ current_images = << >>
    /\ animation_index = 0
    /\ is_playing = FALSE
    /\ anim_timers = 0
    /\ shown = << >>

ResolveFrame ==
    /\ Len(resolved_log) = 0
    /\ \E cls \in CoarseClasses : predict(model, pts, cls)
    /\ UNCHANGED <<camera, pts>>
    /\ UNCHANGED voice

NextResolve == ResolveFrame

SpecResolve == InitResolve /\ [][NextResolve]_vars

\* SpecTotal: the video loop with every coarse class on a hand at rest, a
\* Next and a space gesture, together with the Clear button
TotalPoses == {PoseRest, PoseNext, PoseSpace}

\* the symbols these frames resolve to
TotalSymbols == {Resolve(cls, p) : cls \in CoarseClasses, p \in TotalPoses}

TotalLoop ==
    /\ Len(resolved_log) < MaxTotalFrames
    /\ \E cls \in CoarseClasses, p \in TotalPoses : video_loop(Seen(p, cls))

NextTotal ==
    \/ TotalLoop
    \/ clear_text

SpecTotal == Init /\ [][NextTotal]_vars

\* SpecPlay: the whole application on a signer who holds A and then shows
\* the Next gesture, and a user who switches panels, types or speaks one of
\* PlayTexts and uses the buttons of both panels
PlayFrames == {Seen(PoseThumbLeft, 0), Seen(PoseNext, 0)}

\* the frame the camera delivers after n frames with a hand
PlayFrame(n) ==
    IF n + 1 < MaxPlayFrames THEN Seen(PoseThumbLeft, 0) ELSE Seen(PoseNext, 0)

PlayTexts == {<<"a", "1", SP, "B">>, <<"1", "2">>, <<SP>>}

PlaySwitch ==
    /\ \E mode \in {"asl_to_voice", "voice_to_asl"}, f \in {NoHand} :
          /\ mode = "asl_to_voice" => loops < MaxLoops
          /\ switch_mode(mode, f)

PlayLoop ==
    /\ Len(resolved_log) < MaxPlayFrames
    /\ video_loop(PlayFrame(Len(resolved_log)))

\* the recognizer returns one of PlayTexts or raises
PlayCallbacks == {Recognized(t) : t \in PlayTexts} \cup {NotRecognized}

ListenThread == \E cb \in PlayCallbacks : listen_thread(cb)

ProcessRecognizedText ==
    /\ anim_timers < MaxTimers
    /\ process_recognized_text

ProcessTextInput ==
    /\ anim_timers < MaxTimers
    /\ \E entry \in PlayTexts : process_text_input(entry)

NextPlay ==
    \/ PlaySwitch
    \/ PlayLoop
    \/ ApplySuggestion
    \/ clear_text
    \/ start_listening
    \/ ListenThread
    \/ ProcessRecognizedText
    \/ ProcessTextInput
    \/ animate_next
    \/ stop_animation

SpecPlay == Init /\ [][NextPlay]_vars

\* SpecGUI: the stand-alone translator on a user who types one of GUITexts,
\* speaks one of GUISpeech and uses its buttons.  The fields of TwoWayTranslatorApp keep the
\* values of a closed camera.
GUITexts ==
    { <<"h", "e", "l", "l", "o">>,
      <<"Y", "e", "s", SP, "a", "1">>,
      <<"1", "2">>,
      <<SP>> }

\* what the recognizer hears
GUISpeech == {<<"N", "o">>, <<"7">>}

GUICallbacks == {Recognized(t) : t \in GUISpeech} \cup {NotRecognized}

InitGUI ==
    /\ current_mode = "voice_to_asl"
    /\ vs = "None"
    /\ model = "None"
    /\ loops = 0
    /\ InitEngine

GUIListenThread == \E cb \in GUICallbacks : GUI_listen_thread(cb)

GUIProcessRecognizedText ==
    /\ anim_timers < MaxTimers
    /\ GUI_process_recognized_text

GUIProcessTextInput ==
    /\ anim_timers < MaxTimers
    /\ \E entry \in GUITexts : GUI_process_text_input(entry)

NextGUI ==
    \/ GUI_start_listening
    \/ GUIListenThread
    \/ GUI_listen_thread_raises
    \/ GUIProcessRecognizedText
    \/ GUIProcessTextInput
    \/ GUI_animate_next
    \/ GUI_stop_animation

SpecGUI == InitGUI /\ [][NextGUI]_vars

\* SpecChains: a signer who shows A, the Next gesture or no hand, a camera
\* that may fail to deliver a frame or deliver one with too few landmarks,
\* and a user who clicks the two radio buttons of the mode frame at any
\* moment, with at most MaxChains video_loop callbacks pending
ChainsFrames == {NoHand, ReadFailed, Seen(PoseShort, 0)} \cup PlayFrames

ChainsSwitch ==
    /\ Len(resolved_log) < MaxPlayFrames
    /\ \E mode \in {"asl_to_voice", "voice_to_asl"}, f \in ChainsFrames :
          /\ mode = "asl_to_voice" => loops < MaxChains
          /\ switch_mode(mode, f)

ChainsLoop ==
    /\ Len(resolved_log) < MaxPlayFrames
    /\ \E f \in ChainsFrames : video_loop(f)

NextChains ==
    \/ ChainsSwitch
    \/ ChainsLoop

SpecChains == Init /\ [][NextChains]_vars

\* SpecVoice: the voice panel of the application alone: a user who switches
\* panels, types or speaks one of PlayTexts and uses the Listen and Stop
\* buttons, in front of a camera that sees no hand
NextVoice ==
    \/ PlaySwitch
    \/ start_listening
    \/ ListenThread
    \/ ProcessRecognizedText
    \/ ProcessTextInput
    \/ animate_next
    \/ stop_animation

SpecVoice == Init /\ [][NextVoice]_vars

\* SpecVoiceFair: SpecVoice with the scheduling the program relies on.  The
\* listen thread runs to its end (the recognizer calls return or raise), the
\* main loop runs every posted callback and fires every timer; the user is
\* free.  The callback is strongly fair because its guard on the number of
\* timers is a bound of the model, not of the program.
SpecVoiceFair ==
    /\ SpecVoice
    /\ WF_vars(ListenThread)
    /\ SF_vars(ProcessRecognizedText)
    /\ WF_vars(animate_next)

\* SpecGUIFair: SpecGUI with the scheduling the program relies on: the
\* listen thread runs to its end, one way or the other, and the main loop
\* runs every posted callback and fires every timer
SpecGUIFair ==
    /\ SpecGUI
    /\ WF_vars(GUIListenThread \/ GUI_listen_thread_raises)
    /\ SF_vars(GUIProcessRecognizedText)
    /\ WF_vars(GUI_animate_next)

(* ---------------------------------------------------------------------- *)
(* Properties                                                              *)
(* ---------------------------------------------------------------------- *)
\* a step in which predict resolved a symbol and ran the commit stage
FrameStep == Len(resolved_log') = Len(resolved_log) + 1

\* the symbol that step resolved, and the one the frame before it resolved
Resolved == resolved_log'[Len(resolved_log')]
PrevResolved ==
    IF Len(resolved_log) = 0 THEN "" ELSE resolved_log[Len(resolved_log)]

\* the symbol resolved k frames before the frame of the step (k >= 1)
Back(k) == resolved_log[Len(resolved_log) + 1 - k]

\* a frame step on which Next appears after a symbol other than Next
RisingEdge == FrameStep /\ Resolved = "next" /\ PrevResolved # "next"

\* C1: a frame step changes the sentence only if it resolved Next and the
\* frame before it did not; so a run of Next frames commits at most once,
\* on its first frame.
C1_EdgeTriggered ==
    [][(FrameStep /\ str' # str) =>
           (Resolved = "next" /\ PrevResolved # "next")]_vars

\* C1 witness: A held three frames, then Next twice: one A was committed.
C1_Witness ==
    /\ resolved_log = <<"A", "A", "A", "next", "next">>
    /\ str = <<SP, "A">>

\* C5: a frame step that resolves anything but Next leaves the sentence as
\* it is, whatever the history and the previous symbol.
C5_NoDirectCommit ==
    [][(FrameStep /\ Resolved # "next") => str' = str]_vars

\* C5 witness: after a commit, a letter, a space and a letter arrive and the
\* sentence stays what the commit made it.
C5_Witness ==
    /\ resolved_log = <<"next", "A", SP, "L">>
    /\ str = <<SP, SP>>

\* C6: on a Next rising edge whose looked-back history slot,
\* (count - 2) mod 10, holds Next, the sentence is unchanged.
C6_NoCommitOnNextLookback ==
    [][(RisingEdge /\ ten_prev_char[(count - 2) % 10] = "next") =>
           str' = str]_vars

\* C6 witness: the Next of the fourth frame looks back at the Next of the
\* first, and only the first one committed.
C6_Witness ==
    /\ resolved_log = <<"next", "A", "A", "next">>
    /\ str = <<SP, SP>>

\* C2 as claimed: on a Next rising edge the symbol resolved two frames
\* before the current frame is the one committed; so A, A, Next appends A.
C2_TwoFrameLookback ==
    [][(RisingEdge /\ Len(resolved_log) >= 2
            /\ Back(2) \notin {"next", "Backspace"}) =>
           str' = Append(str, Back(2))]_vars

\* C2 amended: on a Next rising edge the history slot examined,
\* (count - 2) mod 10, holds the symbol resolved three frames before the
\* current frame (the two frames in between are skipped), or the initial
\* filler " " when fewer than three frames precede; that symbol is what a
\* commit appends.  So A, A, Next appends the filler " " and A, A, A, Next
\* appends A.
C2_ThreeFrameLookback ==
    [][RisingEdge =>
           LET lb == IF Len(resolved_log) >= 3 THEN Back(3) ELSE SP
           IN  /\ ten_prev_char[(count - 2) % 10] = lb
               /\ lb # "next" => str' = Append(str, lb)]_vars

\* C2 witness: after the buffer wrapped, A, Next, A, Next: the last Next
\* skipped the A and the Next before it and committed the A three frames back.
C2_Witness ==
    /\ Len(resolved_log) = 12
    /\ SubSeq(resolved_log, 9, 12) = <<"A", "next", "A", "next">>
    /\ str[Len(str)] = "A"

\* C8 as claimed: every processed frame writes its symbol into slot
\* (count mod 10) for the counter value at the start of the step, sets
\* prev_char and increments the counter by one; the history has 10 slots.
C8_WriteAtStartCount ==
    [][FrameStep =>
           /\ ten_prev_char' = [ten_prev_char EXCEPT ![count % 10] = Resolved]
           /\ prev_char' = Resolved
           /\ count' = count + 1
           /\ DOMAIN ten_prev_char' = 0..9]_vars

\* C8 amended: every processed frame, committing or not, increments the
\* counter by exactly one, writes its symbol into the slot of the
\* incremented counter, ((count + 1) mod 10) for the value at the start of
\* the step, and sets prev_char to it; the history has exactly 10 slots.
C8_WriteAtIncrementedCount ==
    [][FrameStep =>
           /\ ten_prev_char' = [ten_prev_char EXCEPT ![(count + 1) % 10] = Resolved]
           /\ prev_char' = Resolved
           /\ count' = count + 1
           /\ DOMAIN ten_prev_char' = 0..9]_vars

\* C8 witness: the twelfth frame (counter 11) overwrote slot 1, which held
\* the symbol of the second frame.
C8_Witness ==
    /\ count = 11
    /\ resolved_log[2] = "A"
    /\ resolved_log[12] = "next"
    /\ ten_prev_char[1] = "next"
    /\ ten_prev_char[2] = resolved_log[3]

C7_CommitEffect ==
    [][(RisingEdge /\ ten_prev_char[(count - 2) % 10] # "next") =>
           LET lb == ten_prev_char[(count - 2) % 10]
           IN  IF lb = "Backspace"
               THEN IF Len(str) > 0
                    THEN str = str' \o <<str[Len(str)]>>
                    ELSE str' = str
               ELSE /\ lb \in {"A", SP}
                    /\ str' = str \o <<lb>>]_vars

\* C7 witness: one Next appended the A it looked back at, a later one looked
\* back at Backspace and removed it again.
C7_Witness ==
    /\ resolved_log = <<"A", SP, "Backspace", "next", SP, "next">>
    /\ str = <<SP>>

\* the signer has confirmed the O, and the space after it
SpelledHello == NumRuns(resolved_log) = 10
SpelledSpace == NumRuns(resolved_log) = 12

\* C4 as claimed: once H, E, L, L, O are confirmed the sentence is "HELLO"
\* and so is the active word; once the space is committed the active word
\* is empty.
C4_HelloExact ==
    /\ SpelledHello =>
          /\ str = <<"H", "E", "L", "L", "O">>
          /\ ActiveWord(str) = <<"H", "E", "L", "L", "O">>
    /\ SpelledSpace => ActiveWord(str) = << >>

\* C4 amended: once H, E, L, L, O are confirmed (each held for at least
\* three frames) self.str is " HELLO", the blank it is initialised with
\* followed by the letters (the sentence label shows str.strip(), "HELLO"),
\* and the active word is "HELLO"; once the space is committed the sentence
\* is " HELLO " and the active word is empty.
C4_HelloAfterBlank ==
    /\ SpelledHello =>
          /\ str = <<SP, "H", "E", "L", "L", "O">>
          /\ Strip(str) = <<"H", "E", "L", "L", "O">>
          /\ ActiveWord(str) = <<"H", "E", "L", "L", "O">>
          /\ word = <<"H", "E", "L", "L", "O">>
    /\ SpelledSpace =>
          /\ str = <<SP, "H", "E", "L", "L", "O", SP>>
          /\ ActiveWord(str) = << >>
          /\ word = << >>

\* C4 witness: the whole scenario has run, every sign held four frames.
C4_Witness ==
    /\ SpelledSpace
    /\ Len(resolved_log) >= 24 + 6
    /\ str = <<SP, "H", "E", "L", "L", "O", SP>>

\* a step of the video loop, by timer or from start_camera, on a frame
\* without a hand or with fewer than 21 landmarks
DroppedFrameStep ==
    \E f \in Frames :
       /\ Dropped(f)
       /\ \/ video_loop(f)
          \/ switch_mode("asl_to_voice", f)

\* C9: a frame without a hand, or with fewer than 21 landmarks, changes
\* none of sentence, suggestions, history, previous symbol, current symbol
\* and frame counter.
C9_DroppedFrame ==
    [][DroppedFrameStep =>
           UNCHANGED <<str, word1, word2, word3, word4, ten_prev_char,
                       prev_char, current_symbol, count>>]_vars

\* C9 witness: a landmark list of 20 points arrived after three frames were
\* processed, and the engine still shows the third.
C9_Witness ==
    /\ pts = PoseShort
    /\ resolved_log = <<"next", "A", "L">>
    /\ count = 2
    /\ prev_char = "L"
    /\ current_symbol = "L"
    /\ ten_prev_char[2] = "L"
    /\ str = <<SP, SP>>

\* C10: for every coarse class and every landmark list with pt4.x < pt5.x,
\* pt6.y > pt8.y, pt10.y > pt12.y and pt14.y > pt16.y the resolved symbol
\* is Next.
C10_NextOverrideWins ==
    (/\ Len(resolved_log) = 1
     /\ pts[5][1] < pts[6][1]
     /\ pts[7][2] > pts[9][2]
     /\ pts[11][2] > pts[13][2]
     /\ pts[15][2] > pts[17][2])
        => (resolved_log[1] = "next" /\ current_symbol = "next")

\* C10 witness: Next was resolved for a hand whose thumb tip is also below
\* the index tip and left of the index finger (class 0 alone reads it as E)
\* and whose middle finger is farther than 42 from the thumb (class 2 alone
\* reads it as C).
C10_Witness ==
    /\ resolved_log = <<"next">>
    /\ pts[5][2] > pts[9][2]
    /\ pts[5][1] < pts[7][1]
    /\ DistSq(pts[13], pts[5]) > 1764

\* the hand shapes of the two special gestures, for a landmark list l of 21
\* points (l[i + 1] is point i): index and little finger bent, middle and
\* ring finger extended; thumb left of point 5 and index, middle and ring
\* finger bent
SpaceShape(l) ==
    /\ l[7][2] > l[9][2]
    /\ l[11][2] < l[13][2]
    /\ l[15][2] < l[17][2]
    /\ l[19][2] > l[21][2]
NextShape(l) ==
    /\ l[5][1] < l[6][1]
    /\ l[7][2] > l[9][2]
    /\ l[11][2] > l[13][2]
    /\ l[15][2] > l[17][2]

\* C11: for every coarse class and every landmark list with pt6.y > pt8.y,
\* pt10.y < pt12.y, pt14.y < pt16.y and pt18.y > pt20.y the resolved symbol
\* is the space, not the letter of the class rule.
C11_SpaceOverrideWins ==
    (Len(resolved_log) = 1 /\ SpaceShape(pts))
        => (resolved_log[1] = SP /\ current_symbol = SP /\ prev_char = SP)

\* C11 witness: the space was resolved for a hand whose index finger is
\* bent and middle finger extended (class 1 alone reads it as D) and whose
\* middle finger tip is farther than 42 from the thumb tip (class 2 alone
\* reads it as C).
C11_Witness ==
    /\ resolved_log = <<SP>>
    /\ pts[7][2] > pts[9][2]
    /\ pts[11][2] < pts[13][2]
    /\ DistSq(pts[13], pts[5]) > 1764

\* C12: no landmark list of 21 points satisfies the conditions of the space
\* override and of the Next override together; so a frame that satisfies
\* one of them is never resolved to the symbol of the other.
C12_OverridesExclusive ==
    /\ Len(pts) = 21
    /\ ~(SpaceCond(pts) /\ NextCond(pts))
    /\ Len(resolved_log) = 1 =>
          /\ SpaceCond(pts) => resolved_log[1] # "next"
          /\ NextCond(pts) => resolved_log[1] # SP

\* C12 witness: a hand that meets the whole space condition and the two
\* tests of Next that are compatible with it (thumb and index finger) was
\* resolved to the space.
C12_Witness ==
    /\ resolved_log = <<SP>>
    /\ SpaceShape(pts)
    /\ pts[5][1] < pts[6][1]

\* the step in which predict runs on a fresh engine with the classifier's
\* argmax cls, for landmarks that trigger neither override
PlainResolveStep(cls) ==
    /\ Len(resolved_log) = 0
    /\ predict(model, pts, cls)
    /\ ~SpaceShape(pts)
    /\ ~NextShape(pts)

\* C13: for coarse class 0 with neither override triggered the result is E
\* if pt4.y > pt8.y (also when pt4.x < pt6.x holds as well: the later test
\* wins), else A if pt4.x < pt6.x, else S.
C13_ClassZero ==
    [][PlainResolveStep(0) =>
           /\ Resolved = (IF pts[5][2] > pts[9][2] THEN "E"
                          ELSE IF pts[5][1] < pts[7][1] THEN "A" ELSE "S")
           /\ current_symbol' = Resolved]_vars

\* C13 witness: E was resolved for a hand that also meets the test for A.
C13_Witness ==
    /\ resolved_log = <<"E">>
    /\ pts[5][1] < pts[7][1]
    /\ pts[5][2] > pts[9][2]

\* C14: for coarse class 1 with neither override triggered the result is B
\* when pt6.y > pt8.y and pt10.y > pt12.y, D when pt6.y > pt8.y and
\* pt10.y < pt12.y, and F in every other case, equal coordinates included.
C14_ClassOne ==
    [][PlainResolveStep(1) =>
           /\ Resolved =
                  (IF pts[7][2] > pts[9][2] /\ pts[11][2] > pts[13][2] THEN "B"
                   ELSE IF pts[7][2] > pts[9][2] /\ pts[11][2] < pts[13][2] THEN "D"
                   ELSE "F")
           /\ current_symbol' = Resolved]_vars

\* C14 witness: F was resolved for a hand whose index finger is bent and
\* whose points 10 and 12 are level.
C14_Witness ==
    /\ resolved_log = <<"F">>
    /\ pts[7][2] > pts[9][2]
    /\ pts[11][2] = pts[13][2]

\* C15: for coarse class 2 with neither override triggered the result is C
\* exactly when the squared distance of pt12 and pt4 is greater than 1764
\* (distance > 42), and O otherwise; a distance of exactly 42 gives O.
C15_ClassTwo ==
    [][PlainResolveStep(2) =>
           /\ Resolved = "C" <=> DistSq(pts[13], pts[5]) > 1764
           /\ Resolved = "O" <=> DistSq(pts[13], pts[5]) <= 1764
           /\ current_symbol' = Resolved]_vars

\* C15 witness: O was resolved at a distance of exactly 42.
C15_Witness ==
    /\ resolved_log = <<"O">>
    /\ DistSq(pts[13], pts[5]) = 1764

\* C16: for the coarse classes 3 to 7 with neither override triggered:
\* class 3 gives G if distance(pt8, pt12) > 72 else H, class 4 gives L,
\* class 5 gives P, class 6 gives X, whatever the landmarks, and class 7
\* gives Y if distance(pt8, pt4) > 42 else J.
C16_ClassTable ==
    [][\A cls \in 3..7 :
           PlainResolveStep(cls) =>
               Resolved =
                   CASE cls = 3 -> IF DistSq(pts[9], pts[13]) > 5184
                                   THEN "G" ELSE "H"
                     [] cls = 4 -> "L"
                     [] cls = 5 -> "P"
                     [] cls = 6 -> "X"
                     [] cls = 7 -> IF DistSq(pts[9], pts[5]) > 1764
                                   THEN "Y" ELSE "J"]_vars

\* C16 witness: P was resolved for a hand whose points 8 and 12 are farther
\* apart than 72 (class 3 reads it as G) and whose points 8 and 4 are
\* farther apart than 42 (class 7 reads it as Y).
C16_Witness ==
    /\ resolved_log = <<"P">>
    /\ DistSq(pts[9], pts[13]) > 5184
    /\ DistSq(pts[9], pts[5]) > 1764

\* the four suggestion slots all hold the placeholder " "
SlotsCleared ==
    /\ word1 = <<SP>>
    /\ word2 = <<SP>>
    /\ word3 = <<SP>>
    /\ word4 = <<SP>>

\* C17: whenever the active word is empty all four suggestion slots hold the
\* placeholder; so once a space is committed no candidate of the word
\* before it is left in a slot.
C17_ClearedWhenEmpty == ActiveWord(str) = << >> => SlotsCleared

\* a frame step after which the word being spelled is not empty
WordFrameStep == FrameStep /\ ActiveWord(str') # << >>

\* C18: after every frame step that leaves a non-empty active word, the
\* dictionary was asked about that word, and slot k (k = 1..4) holds the
\* k-th candidate of the list it returned, in the order returned, or the
\* placeholder " " when the list has fewer than k candidates.
C18_FirstFourInOrder ==
    [][WordFrameStep =>
           LET slots == <<word1', word2', word3', word4'>>
           IN  /\ LowerStr(suggest_arg') = LowerStr(ActiveWord(str'))
               /\ \A k \in 1..4 :
                      slots[k] = IF k <= Len(suggest_ret')
                                 THEN suggest_ret'[k]
                                 ELSE <<SP>>]_vars

\* C18 witness: the dictionary returned five candidates for "A" and the
\* slots hold the first four; the fifth, "say", is in none.
C18_Witness ==
    /\ str = <<SP, "A">>
    /\ suggest_arg = <<"A">>
    /\ Len(suggest_ret) = 5
    /\ <<word1, word2, word3, word4>> = <<CandSea, CandSee, CandSet, CandSaw>>

\* C19 as claimed: the dictionary is called with the lower-case form of the
\* active word.
C19_LowerCaseArg ==
    [][WordFrameStep => suggest_arg' = LowerStr(ActiveWord(str'))]_vars

\* C19 amended: the dictionary is called with the active word exactly as it
\* stands in the sentence, upper-case letters as committed, with no
\* conversion to lower case; self.word holds the same string.
C19_StoredCaseArg ==
    [][WordFrameStep =>
           /\ suggest_arg' = ActiveWord(str')
           /\ word' = suggest_arg']_vars

\* C19 witness: after a suggestion was applied the dictionary was asked
\* about "SEA".
C19_Witness ==
    /\ str = <<SP, "S", "E", "A">>
    /\ suggest_arg = <<"S", "E", "A">>

\* s up to and including its last space (nothing when it has none)
ThroughLastSpace(s) ==
    LET spaces == {i \in 1..Len(s) : s[i] = SP}
    IN  IF spaces = {} THEN << >>
        ELSE SubSeq(s, 1, CHOOSE i \in spaces : \A j \in spaces : j <= i)

\* C20: apply_suggestion(i), i in 1..4, with a non-empty candidate in slot
\* i makes the sentence the old sentence up to and including its last space
\* followed by the candidate in upper case: the active word is replaced, not
\* extended; the debounce state is unchanged.
C20_ReplaceActiveWord ==
    [][\A i \in 1..4 :
           LET cand == <<word1, word2, word3, word4>>[i]
           IN  (apply_suggestion(i) /\ Strip(cand) # << >>) =>
                   /\ str' = ThroughLastSpace(str) \o UpperStr(cand)
                   /\ Len(str') = Len(str) - Len(ActiveWord(str)) + Len(cand)
                   /\ UNCHANGED <<prev_char, current_symbol, count,
                                  ten_prev_char>>]_vars

\* C20 witness: the active word "A" was replaced by the second candidate,
\* "Set", in upper case.
C20_Witness ==
    /\ str = <<SP, "S", "E", "T">>
    /\ word2 = CandSet
    /\ word = <<"A">>

\* C21: apply_suggestion on a slot that holds the placeholder changes
\* nothing: the sentence and every other variable keep their values.
C21_PlaceholderNoOp ==
    [][\A i \in 1..4 :
           (apply_suggestion(i) /\ <<word1, word2, word3, word4>>[i] = <<SP>>)
               => UNCHANGED vars]_vars

\* C21 witness: the dictionary returned no candidate for "A", every slot
\* holds the placeholder, and the suggestion buttons can be pressed.
C21_Witness ==
    /\ str = <<SP, "A">>
    /\ suggest_arg = <<"A">>
    /\ suggest_ret = << >>
    /\ SlotsCleared
    /\ \A i \in 1..4 : ENABLED apply_suggestion(i)

\* C22 as claimed: clear_text makes the sentence empty and sets the four
\* suggestion slots to the placeholder.
C22_ClearToEmpty ==
    [][clear_text => (str' = << >> /\ SlotsCleared')]_vars

\* C22 amended: clear_text sets self.str to the single blank " " it is
\* initialised with (so the text shown and spoken, str.strip(), is empty)
\* and the four suggestion slots to the placeholder, from any state.
C22_ClearToBlank ==
    [][clear_text =>
           /\ str' = <<SP>>
           /\ Strip(str') = << >>
           /\ ActiveWord(str') = << >>
           /\ SlotsCleared']_vars

\* C22 witness: the last answer of the dictionary had five candidates, and
\* the slots and the sentence are blank again.
C22_Witness ==
    /\ Len(suggest_ret) = 5
    /\ SlotsCleared
    /\ str = <<SP>>

\* C23: clear_text leaves the history, the previous symbol and the frame
\* counter (and the current symbol) as they are; so a Next rising edge
\* after it looks back at symbols recorded before it.
C23_ClearKeepsDebounce ==
    [][clear_text =>
           UNCHANGED <<ten_prev_char, prev_char, count, current_symbol>>]_vars

\* C23 witness: the sentence was cleared after the first commit, and the
\* Next of the sixth frame committed the A of the third frame, recorded
\* before the clear.
C23_Witness ==
    /\ resolved_log = <<"A", "A", "A", "next", "A", "next">>
    /\ str = <<SP, "A">>
    /\ count = 5

\* C24: a commit whose looked-back symbol is Backspace leaves an empty
\* sentence empty, and removes exactly the final character of a non-empty
\* one.
C24_DeleteLast ==
    [][(RisingEdge /\ ten_prev_char[(count - 2) % 10] = "Backspace") =>
           /\ str = << >> => str' = << >>
           /\ str # << >> =>
                  /\ Len(str') = Len(str) - 1
                  /\ \A i \in 1..Len(str') : str'[i] = str[i]]_vars

\* C24 witness: the first Backspace removed the blank the sentence starts
\* with, the second found the sentence empty and left it so.
C24_Witness ==
    /\ resolved_log = <<"Backspace", "A", "Backspace", "next", "A", "next">>
    /\ str = << >>

\* the part of s after its last space, the whole of s when it has none
AfterLastSpace(s) == SubSeq(s, Len(ThroughLastSpace(s)) + 1, Len(s))

\* a frame step derives the active word from the sentence it leaves, and
\* apply_suggestion replaces that same part of the sentence
SameDerivation ==
    /\ (FrameStep /\ Strip(str') # << >>) =>
           /\ word' = AfterLastSpace(str')
           /\ AfterLastSpace(str') # << >> => suggest_arg' = AfterLastSpace(str')
    /\ \A i \in 1..4 :
           LET cand == <<word1, word2, word3, word4>>[i]
           IN  (apply_suggestion(i) /\ Strip(cand) # << >>) =>
                   /\ str = ThroughLastSpace(str) \o AfterLastSpace(str)
                   /\ str' = ThroughLastSpace(str) \o UpperStr(cand)

\* C25 as claimed: the active word is the part of the sentence after its
\* last space (all of it when it has no space), the frame step and
\* apply_suggestion derive it the same way, and no copy of it is kept apart
\* from the sentence: whatever word the state holds is the one derived from
\* the sentence.
C25_NeverStored ==
    [][/\ SameDerivation
       /\ Strip(str') # << >> => word' = AfterLastSpace(str')]_vars

\* C25 amended: the active word is derived from the sentence at each use,
\* as the part after its last space (all of it when it has no space), by
\* the frame step and by apply_suggestion alike; the frame step also keeps
\* a copy in self.word, which apply_suggestion and clear_text do not update
\* (and no code reads).
C25_DerivedAtEachUse ==
    [][/\ SameDerivation
       /\ ~FrameStep => word' = word]_vars

\* C25 witness: the sentence has no space (a Backspace removed its leading
\* blank) and the active word is the whole sentence.
C25_Witness ==
    /\ str = <<"A">>
    /\ word = <<"A">>
    /\ suggest_arg = <<"A">>

\* the symbols a frame may resolve to: a letter A-Z, the space or Next
Letters == {Upper[i] : i \in 1..Len(Upper)}
ResolvedSymbols == Letters \cup {SP, "next"}

TextState == <<str, word1, word2, word3, word4, ten_prev_char, prev_char, count>>

\* C27: display_asl (called by process_recognized_text and
\* process_text_input), animate_next and stop_animation leave the sentence,
\* the suggestions, the history, prev_char and count unchanged, and the frame
\* step, apply_suggestion and clear_text leave current_images,
\* animation_index and is_playing unchanged
C27_NoSharedState ==
    [][/\ (\/ process_recognized_text
           \/ \E entry \in PlayTexts : process_text_input(entry)
           \/ animate_next
           \/ stop_animation) => UNCHANGED TextState
       /\ (\/ \E f \in PlayFrames : video_loop(f)
           \/ \E num \in 1..NumSlots : apply_suggestion(num)
           \/ clear_text)
              => UNCHANGED <<current_images, animation_index, is_playing>>]_vars

\* a letter was committed and a candidate offered while a playback was
\* half-way
C27_Witness ==
    /\ str = <<SP, "A">>
    /\ word1 # <<SP>>
    /\ is_playing
    /\ Len(shown) = 1
    /\ Len(current_images) = 2
    /\ anim_timers = 1

\* C28: a step of the speech-recognition worker thread changes no field of
\* the engine, of the playback or of a widget; it ends the thread and posts
\* exactly one callback, which the main loop runs later
C28_WorkerOnlyPosts ==
    [][(\E cb \in PlayCallbacks : listen_thread(cb)) =>
          /\ UNCHANGED <<engine, pts, camera, playback, listen_btn>>
          /\ worker' = worker - 1
          /\ Len(posted') = Len(posted) + 1]_vars

\* the worker has posted recognized text during a playback, and the main
\* loop has not run the callback yet
C28_Witness ==
    /\ posted = <<Recognized(<<"a", "1", SP, "B">>)>>
    /\ worker = 0
    /\ listen_btn = "disabled"
    /\ is_playing
    /\ Len(shown) = 1

\* the words of text that have an alphanumeric character, cleaned
CleanWords(text) ==
    SelectSeq([k \in 1..Len(split(text)) |-> CleanWord(split(text)[k])],
              LAMBDA w : Len(w) # 0)

IsCommon(w) == LowerStr(w) \in COMMON_WORDS

\* the letters of the words of ws that are not common words, lower-cased
RECURSIVE SpelledLetters(_)
SpelledLetters(ws) ==
    IF Len(ws) = 0
    THEN << >>
    ELSE (IF IsCommon(Head(ws))
          THEN << >>
          ELSE SelectSeq(LowerStr(Head(ws)), isalpha)) \o SpelledLetters(Tail(ws))

IsLetterSign(sign) == sign.type = "letter"

\* C29: when a text with a letter is typed, a common word in it is shown as
\* a sign of type 'word', and the letter signs are the letters of the other
\* words, in order
C29_CommonWordSigns ==
    [][\A entry \in GUITexts :
          (/\ GUI_process_text_input(entry)
           /\ \E i \in 1..Len(entry) : isalpha(entry[i])) =>
             LET ws == CleanWords(Strip(entry))
                 letters == SelectSeq(current_images', IsLetterSign)
             IN  /\ (\E k \in 1..Len(ws) : IsCommon(ws[k])) =>
                       \E j \in 1..Len(current_images') :
                           current_images'[j].type = "word"
                 /\ [j \in 1..Len(letters) |-> letters[j].char]
                        = SpelledLetters(ws)]_vars

\* the signs displayed so far are the first signs of current_images, each
\* at its own index, and animation_index counts them
PlaybackInOrder ==
    /\ animation_index <= Len(current_images)
    /\ Len(shown) = animation_index
    /\ \A k \in 1..Len(shown) :
          /\ shown[k].index = k - 1
          /\ shown[k].index < Len(current_images)
          /\ k <= Len(current_images) => shown[k].char = current_images[k].char

\* C30: display_asl makes current_images the alphabetic characters of the
\* text in text order, and at every moment, also when display_asl or
\* stop_animation runs during a playback, the signs displayed are the first
\* animation_index of them, in order and once each, with animation_index at
\* most len(current_images)
C30_PlaybackInOrder ==
    [][/\ \A entry \in PlayTexts :
             process_text_input(entry) /\ Len(Strip(entry)) # 0 =>
                [k \in 1..Len(current_images') |-> current_images'[k].char]
                    = SelectSeq(entry, isalpha)
       /\ PlaybackInOrder']_vars

\* C31: at most one animate_next callback is pending at any time, also
\* after display_asl has started a playback while an earlier one, or a
\* stopped one whose timer has not fired, was outstanding
C31_OneAnimateTimer == anim_timers <= 1

\* C32: at most one video_loop callback is pending at any time, whatever
\* the sequence of clicks on the mode buttons
C32_OneVideoLoop == loops <= 1

\* C33: a character that a frame step appends to the sentence is a symbol
\* resolved in an earlier frame of the run, never the filler the history
\* buffer is initialised with
C33_CommittedWasResolved ==
    [][(FrameStep /\ Len(str') = Len(str) + 1) =>
           \E i \in 1..Len(resolved_log) :
               resolved_log[i] = str'[Len(str')]]_vars

\* a step of the video loop of SpecTotal
TotalFrameStep ==
    \E cls \in CoarseClasses, p \in TotalPoses : video_loop(Seen(p, cls))

\* C34: no frame resolves to Backspace and none is written to the history,
\* so a frame step never deletes: the sentence before the step is a prefix
\* of the sentence after it
C34_SentenceOnlyGrows ==
    [][TotalFrameStep =>
          /\ FrameStep => Resolved # "Backspace"
          /\ \A i \in 0..(HistLen - 1) : ten_prev_char'[i] # "Backspace"
          /\ Len(str') >= Len(str)
          /\ SubSeq(str', 1, Len(str)) = str]_vars

\* P was held for three frames and committed by a Next
C34_Witness ==
    /\ resolved_log = <<"P", "P", "P", "next">>
    /\ str = <<SP, "P">>
    /\ ten_prev_char[3] = "next"

\* C35: while the listen button is disabled exactly one listen thread runs
\* or exactly one of its callbacks is posted, the button is re-enabled by
\* the step that runs that callback, and it is eventually re-enabled
C35_ListeningCompletes ==
    /\ [](listen_btn = "disabled" <=> worker + Len(posted) = 1)
    /\ [](worker + Len(posted) <= 1)
    /\ [][(listen_btn = "disabled" /\ listen_btn' = "normal") =>
             (Len(posted) = 1 /\ posted' = << >>)]_vars
    /\ (listen_btn = "disabled") ~> (listen_btn = "normal")

\* the recognizer raised and the thread has posted the callback with None
C35_Witness ==
    /\ posted = <<NotRecognized>>
    /\ worker = 0
    /\ listen_btn = "disabled"

\* C36: in the stand-alone translator the listen button, once disabled by
\* start_listening, is eventually re-enabled
C36_ButtonReenabled == (listen_btn = "disabled") ~> (listen_btn = "normal")

\* a step of the main loop that may call display_asl
DisplayStep == ProcessTextInput \/ ProcessRecognizedText

\* C37: if from some moment on display_asl is not called any more, every
\* playback in progress ends: is_playing becomes False (and with it the
\* Stop button disabled), whether the playback runs to its end or Stop is
\* pressed, and no timer stays pending
C37_PlaybackTerminates ==
    (<>[][~DisplayStep]_vars) =>
        /\ is_playing ~> ~is_playing
        /\ <>[](~is_playing /\ anim_timers = 0)

\* a playback of two signs ran to its end
C37_Witness ==
    /\ ~is_playing
    /\ anim_timers = 0
    /\ Len(current_images) = 2
    /\ animation_index = 2
    /\ Len(shown) = 2

\* C38: stop_animation clears is_playing and nothing else; from then on,
\* until a step that calls display_asl, no sign is displayed and
\* animation_index does not advance, and a callback that was pending fires
\* without displaying and without rescheduling itself
C38_StoppedStaysStopped ==
    [][/\ stop_animation =>
             /\ ~is_playing'
             /\ UNCHANGED <<current_images, animation_index, anim_timers, shown>>
       /\ (~is_playing /\ animate_next) =>
             /\ UNCHANGED <<current_images, animation_index, is_playing, shown>>
             /\ anim_timers' = anim_timers - 1
       /\ (~is_playing /\ ~DisplayStep) =>
             UNCHANGED <<animation_index, is_playing, shown>>]_vars

\* Stop was pressed after the first of two signs, and the pending callback
\* has fired
C38_Witness ==
    /\ ~is_playing
    /\ anim_timers = 0
    /\ Len(current_images) = 2
    /\ animation_index = 1
    /\ Len(shown) = 1

\* the video loop can run: ASL mode, camera open, model loaded
LoopCanRun ==
    current_mode = "asl_to_voice" /\ vs = "open" /\ model = "loaded"

\* C39: while the loop can run a video_loop callback is pending, and a
\* callback that fires schedules itself again whatever the frame (no hand,
\* failed read, exception in the processing of the frame); the number of
\* pending callbacks only drops when one fires in voice mode or without a
\* camera
C39_LoopNeverDies ==
    /\ [](LoopCanRun => loops >= 1)
    /\ [][(\E f \in ChainsFrames : video_loop(f)) =>
             IF current_mode = "asl_to_voice" /\ vs = "open"
             THEN loops' = loops
             ELSE loops' = loops - 1]_vars
    /\ [][loops' < loops => (current_mode # "asl_to_voice" \/ vs = "None")]_vars

\* a frame with too few landmarks raised in the middle of the processing,
\* and the loop is still scheduled
C39_Witness ==
    /\ LoopCanRun
    /\ pts = PoseShort
    /\ loops = 1
    /\ Len(resolved_log) = 2

====
